---- MODULE Spec2Model ----
(***************************************************************************)
(* Model of nemo/collections/tts/models/fastpitch.py:                      *)
(*   - average_pitch(pitch, durs), the prefix-sum pitch averaging kernel;  *)
(*   - FastPitchModel.tb_logger, the cached TensorBoard experiment lookup. *)
(*                                                                         *)
(* Tensors are sequences of sequences.  pitch is a float32 tensor          *)
(* (torch's default dtype) of shape (B, F, T) whose elements are           *)
(* integer-valued; durs is an integer tensor of shape (B, L).  float32     *)
(* arithmetic is modelled with its 24-bit significand and round to nearest *)
(* even.  A float32 that need not be an integer (an element of the         *)
(* result) is a pair <<num, den>> in lowest terms with den a power of two; *)
(* <<0, 0>> is NaN and <<1, 0>>, <<-1, 0>> are the infinities.             *)
(***************************************************************************)
EXTENDS Integers, Sequences, FiniteSets

VARIABLES pitch, durs, pc, ret, logger, _tb_logger, tb_ret

vars == <<pitch, durs, pc, ret, logger, _tb_logger, tb_ret>>

---------------------------------------------------------------------------
(* Bounds of the inputs.                                                   *)

MaxB == 2
MaxF == 2
MaxT == 3
MaxL == 3
MaxCells == 4
MaxDurCells == 4
MaxLoggers == 2
MaxExperiments == 3

(* Significand width of torch.float32. *)
MantissaBits == 24

Big == 2^MantissaBits

(* Pitch values: unvoiced, small ones, and the first float32 whose       *)
(* successor integer is not a float32.                                   *)
PitchVals == {0, 1, 2, Big}
(* Pitch values of the calls whose argument shapes or durations are      *)
(* arbitrary: unvoiced and voiced.                                       *)
AnyPitchVals == {0, 1}
(* Durations of those calls: also negative, also past the last frame.    *)
DurVals == (-1)..MaxT

---------------------------------------------------------------------------
(* float32 arithmetic.                                                     *)

Abs(x) == IF x < 0 THEN -x ELSE x
Sgn(x) == IF x < 0 THEN -1 ELSE IF x > 0 THEN 1 ELSE 0

(* a / b rounded to the nearest integer, ties to even (a >= 0, b > 0). *)
RNE(a, b) ==
    LET q == a \div b
        r == a % b
    IN  IF 2 * r > b THEN q + 1
        ELSE IF 2 * r = b THEN q + (q % 2)
        ELSE q

(* Smallest exponent at or above j with a < b * 2^(MantissaBits + j). *)
RECURSIVE ExpAbove(_, _, _)
ExpAbove(a, b, j) ==
    IF a < b * 2^(MantissaBits + j) THEN j ELSE ExpAbove(a, b, j + 1)

(* Smallest exponent at or above k with a * 2^k >= b * 2^(MantissaBits - 1). *)
RECURSIVE ExpBelow(_, _, _)
ExpBelow(a, b, k) ==
    IF a * 2^k >= b * 2^(MantissaBits - 1) THEN k ELSE ExpBelow(a, b, k + 1)

(* The float32 nearest to the integer x: what storing x in a float32     *)
(* tensor, or Tensor.float() on it, yields.                              *)
RoundF32(x) ==
    IF Abs(x) < 2^MantissaBits THEN x
    ELSE LET j == ExpAbove(Abs(x), 1, 1)
         IN  Sgn(x) * RNE(Abs(x), 2^j) * 2^j

RECURSIVE Normalize(_, _)
Normalize(m, d) ==
    IF d > 1 /\ m % 2 = 0 THEN Normalize(m \div 2, d \div 2) ELSE <<m, d>>

NaN == <<0, 0>>
Zero == <<0, 1>>
F32(x) == <<RoundF32(x), 1>>

(* float32 division s / n of two integer-valued float32 numbers. *)
FDiv(s, n) ==
    IF n = 0 THEN (IF s = 0 THEN NaN ELSE <<Sgn(s), 0>>)
    ELSE IF s = 0 THEN Zero
    ELSE LET a == Abs(s)
             b == Abs(n)
             sg == Sgn(s) * Sgn(n)
         IN  IF a >= b * 2^MantissaBits
             THEN LET j == ExpAbove(a, b, 1)
                  IN  <<sg * RNE(a, b * 2^j) * 2^j, 1>>
             ELSE LET k == ExpBelow(a, b, 0)
                  IN  Normalize(sg * RNE(a * 2^k, b), 2^k)

---------------------------------------------------------------------------
(* Tensor primitives on one row (a sequence along the last dimension).    *)

(* The running sums of a row of integers, accumulated left to right. *)
RECURSIVE RunningSum(_)
RunningSum(s) ==
    IF s = <<>> THEN <<>>
    ELSE LET prev == RunningSum(SubSeq(s, 1, Len(s) - 1))
             acc == IF prev = <<>> THEN 0 ELSE prev[Len(prev)]
         IN  Append(prev, acc + s[Len(s)])

(* torch.cumsum on an integer (or bool) row: exact running sums. *)
CumsumLong(s) == RunningSum(s)

(* torch.cumsum on a float32 row: the kernel keeps the running sum in a  *)
(* double accumulator (exact for the values modelled) and stores each    *)
(* running sum as a float32.                                             *)
CumsumF32(s) == [i \in 1..Len(s) |-> RoundF32(RunningSum(s)[i])]

(* pitch != 0.0 on one row. *)
NonZeroMask(s) == [i \in 1..Len(s) |-> IF s[i] # 0 THEN 1 ELSE 0]

(* torch.nn.functional.pad(x, (1, 0)): one zero in front of the row. *)
PadLeft(s) == <<0>> \o s

(* x[:, :-1] on one row. *)
DropLast(s) == SubSeq(s, 1, Len(s) - 1)

(* Element at the zero-based index i, as torch.gather reads it. *)
At(s, i) == s[i + 1]

---------------------------------------------------------------------------
(* average_pitch, line by line.                                            *)

DursCumsEnds(d) == [b \in 1..Len(d) |-> CumsumLong(d[b])]

(* Variant of DursCumsStarts without the shift by one token. *)
DursCumsStarts_NoShift(d) == DursCumsEnds(d)

DursCumsStarts(d) == [b \in 1..Len(d) |-> PadLeft(DropLast(DursCumsEnds(d)[b]))]

PitchNonzeroCums(p) ==
    [b \in 1..Len(p) |-> [f \in 1..Len(p[b]) |-> PadLeft(CumsumLong(NonZeroMask(p[b][f])))]]

PitchCums(p) ==
    [b \in 1..Len(p) |-> [f \in 1..Len(p[b]) |-> PadLeft(CumsumF32(p[b][f]))]]

(* Variant of Expand that keeps the singleton formant dimension. *)
Expand_OneFormant(x, bs, n_formants, l) ==
    [b \in 1..bs |-> [f \in 1..1 |-> [i \in 1..l |-> x[b][i]]]]

(* x[:, None, :].expand(bs, n_formants, l) *)
Expand(x, bs, n_formants, l) ==
    [b \in 1..bs |-> [f \in 1..n_formants |-> [i \in 1..l |-> x[b][i]]]]

(* Variant of GatherOk that also wants index and input to have the same *)
(* number of rows.                                                      *)
GatherOk_SameShape(input, index) ==
    /\ Len(index) = Len(input)
    /\ \A b \in 1..Len(index) :
          /\ Len(index[b]) = Len(input[b])
          /\ \A f \in 1..Len(index[b]) : \A i \in 1..Len(index[b][f]) :
                /\ index[b][f][i] >= 0
                /\ index[b][f][i] < Len(input[b][f])

(* torch.gather(input, 2, index) raises unless index is no larger than   *)
(* input in dimensions 0 and 1 and every index lies in [0, size(2)).     *)
GatherOk(input, index) ==
    /\ Len(index) <= Len(input)
    /\ \A b \in 1..Len(index) :
          /\ Len(index[b]) <= Len(input[b])
          /\ \A f \in 1..Len(index[b]) : \A i \in 1..Len(index[b][f]) :
                /\ index[b][f][i] >= 0
                /\ index[b][f][i] < Len(input[b][f])

Gather(input, index) ==
    [b \in 1..Len(index) |-> [f \in 1..Len(index[b]) |->
        [i \in 1..Len(index[b][f]) |-> At(input[b][f], index[b][f][i])]]]

(* Elementwise a - b of two float32 tensors of one shape (a float32    *)
(* subtraction), then .float().                                        *)
SubFloat(a, b) ==
    [x \in 1..Len(a) |-> [f \in 1..Len(a[x]) |->
        [i \in 1..Len(a[x][f]) |-> RoundF32(RoundF32(a[x][f][i] - b[x][f][i]))]]]

(* Elementwise a - b of two int64 tensors of one shape, then .float(). *)
SubLong(a, b) ==
    [x \in 1..Len(a) |-> [f \in 1..Len(a[x]) |->
        [i \in 1..Len(a[x][f]) |-> RoundF32(a[x][f][i] - b[x][f][i])]]]

(* Variant of Where without the zero guard: the plain quotient. *)
Where_NoGuard(nelems, sums) == FDiv(sums, nelems)

(* torch.where(pitch_nelems == 0.0, pitch_nelems, pitch_sums / pitch_nelems) *)
Where(nelems, sums) == IF nelems = 0 THEN F32(nelems) ELSE FDiv(sums, nelems)

PitchAvg(pitch_sums, pitch_nelems) ==
    [b \in 1..Len(pitch_nelems) |-> [f \in 1..Len(pitch_nelems[b]) |->
        [i \in 1..Len(pitch_nelems[b][f]) |->
            Where(pitch_nelems[b][f][i], pitch_sums[b][f][i])]]]

(* Variant of average_pitch that clamps every cumulative index to the   *)
(* frames available instead of letting gather reject it.                *)
Clamp(x, hi) ==
    [b \in 1..Len(x) |-> [f \in 1..Len(x[b]) |-> [i \in 1..Len(x[b][f]) |->
        IF x[b][f][i] < 0 THEN 0 ELSE IF x[b][f][i] > hi THEN hi ELSE x[b][f][i]]]]

average_pitch_clamped(p, d) ==
    LET pitch_nonzero_cums == PitchNonzeroCums(p)
        pitch_cums == PitchCums(p)
        bs == IF Len(d) < Len(p) THEN Len(d) ELSE Len(p)
        xdcs == Clamp(Expand(DursCumsStarts(d), bs, Len(p[1]), Len(d[1])), Len(p[1][1]))
        xdce == Clamp(Expand(DursCumsEnds(d), bs, Len(p[1]), Len(d[1])), Len(p[1][1]))
        pitch_sums == SubFloat(Gather(pitch_cums, xdce), Gather(pitch_cums, xdcs))
        pitch_nelems ==
            SubLong(Gather(pitch_nonzero_cums, xdce), Gather(pitch_nonzero_cums, xdcs))
    IN  [status |-> "ok", value |-> PitchAvg(pitch_sums, pitch_nelems),
         dcs |-> xdcs, dce |-> xdce]

average_pitch(p, d) ==
    LET durs_cums_ends == DursCumsEnds(d)
        durs_cums_starts == DursCumsStarts(d)
        pitch_nonzero_cums == PitchNonzeroCums(p)
        pitch_cums == PitchCums(p)
        bs == Len(durs_cums_ends)
        l == Len(durs_cums_ends[1])
        n_formants == Len(p[1])
        xdcs == Expand(durs_cums_starts, bs, n_formants, l)
        xdce == Expand(durs_cums_ends, bs, n_formants, l)
    IN  IF GatherOk(pitch_cums, xdce) /\ GatherOk(pitch_cums, xdcs)
        THEN LET pitch_sums == SubFloat(Gather(pitch_cums, xdce), Gather(pitch_cums, xdcs))
                 pitch_nelems ==
                     SubLong(Gather(pitch_nonzero_cums, xdce), Gather(pitch_nonzero_cums, xdcs))
             IN  [status |-> "ok", value |-> PitchAvg(pitch_sums, pitch_nelems),
                  dcs |-> xdcs, dce |-> xdce]
        ELSE [status |-> "error", value |-> <<>>, dcs |-> xdcs, dce |-> xdce]

---------------------------------------------------------------------------
(* The inputs of a call.                                                   *)

Tensor3(B, F, T, V) == [1..B -> [1..F -> [1..T -> V]]]
Tensor2(B, L, V) == [1..B -> [1..L -> V]]

PitchInputs(V) ==
    UNION {Tensor3(B, F, T, V) :
              <<B, F, T>> \in {s \in (1..MaxB) \X (1..MaxF) \X (1..MaxT) :
                                  s[1] * s[2] * s[3] <= MaxCells}}

DursInputs(V) ==
    UNION {Tensor2(B, L, V) :
              <<B, L>> \in {s \in (1..MaxB) \X (1..MaxL) : s[1] * s[2] <= MaxDurCells}}

(* What the callers guarantee: as many rows of durations as of pitch,    *)
(* durations that are counts, and rows that fit in the T frames.         *)
RECURSIVE RowSum(_)
RowSum(r) == IF r = <<>> THEN 0 ELSE r[1] + RowSum(Tail(r))

CallerContract(p, d) ==
    /\ Len(d) = Len(p)
    /\ \A b \in 1..Len(d) :
          /\ \A l \in 1..Len(d[b]) : d[b][l] >= 0
          /\ RowSum(d[b]) <= Len(p[1][1])

(* The scenario worked in the documentation of the kernel. *)
ExamplePitch == <<<< <<0, 2, 0, 4, 6>> >>>>
ExampleDurs == << <<2, 1, 2>> >>

(* Nothing returned yet: the outcome of a call, its result and the       *)
(* expanded span boundaries dcs and dce it computed on the way.          *)
NoRet == [status |-> "none", value |-> <<>>, dcs |-> <<>>, dce |-> <<>>]
NoRead == [status |-> "none", value |-> <<>>]

---------------------------------------------------------------------------
(* FastPitchModel.tb_logger.                                               *)

None == [cls |-> "NoneType", ids |-> <<>>, loggers |-> <<>>]

(* A logger's experiment: a SummaryWriter, identified by a number, or None. *)
Experiment(i) ==
    IF i = 0 THEN None ELSE [cls |-> "SummaryWriter", ids |-> <<i>>, loggers |-> <<>>]

SingleLoggers ==
    {[cls |-> c, ids |-> <<i>>, loggers |-> <<>>] :
        c \in {"TensorBoardLogger", "CSVLogger"}, i \in 0..MaxExperiments}

LoggerCollections ==
    {[cls |-> "LoggerCollection", ids |-> <<>>, loggers |-> s] :
        s \in UNION {[1..n -> SingleLoggers] : n \in 1..MaxLoggers}}

Loggers == {None} \cup SingleLoggers \cup LoggerCollections

(* logger.experiment: of a LoggerCollection, the list of its loggers'     *)
(* experiments.                                                           *)
ExperimentOf(lg) ==
    IF lg.cls = "LoggerCollection"
    THEN [cls |-> "list", ids |-> [i \in 1..Len(lg.loggers) |-> lg.loggers[i].ids[1]],
          loggers |-> <<>>]
    ELSE Experiment(lg.ids[1])

(* Index of the first TensorBoardLogger of a collection, 0 when none. *)
RECURSIVE FirstTensorBoard(_, _)
FirstTensorBoard(s, i) ==
    IF i > Len(s) THEN 0
    ELSE IF s[i].cls = "TensorBoardLogger" THEN i
    ELSE FirstTensorBoard(s, i + 1)

(* The value lines 130-135 resolve for a logger that is not None. *)
ResolveTbLogger(lg) ==
    IF lg.cls = "LoggerCollection" /\ FirstTensorBoard(lg.loggers, 1) # 0
    THEN ExperimentOf(lg.loggers[FirstTensorBoard(lg.loggers, 1)])
    ELSE ExperimentOf(lg)

(* Line 128: `self.logger is None and self.logger.experiment is None`.    *)
(* With no logger the right operand reads an attribute of None and raises *)
(* AttributeError; with a logger the conjunction is False.                *)
GuardRaises(lg) == lg = None

---------------------------------------------------------------------------
(* Specification of average_pitch: Init draws the arguments, the action    *)
(* is the call.  The arguments are those its callers pass (durations of  *)
(* an alignment, over all pitch values), or pitch and durations of any   *)
(* shape and sign, or the documented scenario.                           *)

Init ==
    /\ \/ /\ pitch \in PitchInputs(PitchVals)
          /\ durs \in {d \in DursInputs(0..MaxT) : CallerContract(pitch, d)}
       \/ /\ pitch \in PitchInputs(AnyPitchVals)
          /\ durs \in DursInputs(DurVals)
       \/ /\ pitch = ExamplePitch
          /\ durs = ExampleDurs
    /\ pc = "start"
    /\ ret = NoRet
    /\ logger = None
    /\ _tb_logger = None
    /\ tb_ret = NoRead

AveragePitchCall ==
    /\ pc = "start"
    /\ ret' = average_pitch(pitch, durs)
    /\ pc' = "done"
    /\ UNCHANGED <<pitch, durs, logger, _tb_logger, tb_ret>>

Next == AveragePitchCall

Spec == Init /\ [][Next]_vars

---------------------------------------------------------------------------
(* Specification of FastPitchModel.tb_logger: Init is the model after      *)
(* __init__ (line 85) with whatever logger its trainer provides; the       *)
(* action is one read of the property.                                     *)

InitLogger ==
    /\ pitch = ExamplePitch
    /\ durs = ExampleDurs
    /\ pc = "start"
    /\ ret = NoRet
    /\ logger \in Loggers
    /\ _tb_logger = None
    /\ tb_ret = NoRead

tb_logger ==
    /\ IF _tb_logger = None
       THEN IF GuardRaises(logger)
            THEN /\ tb_ret' = [status |-> "AttributeError", value |-> <<>>]
                 /\ UNCHANGED _tb_logger
            ELSE /\ _tb_logger' = ResolveTbLogger(logger)
                 /\ tb_ret' = [status |-> "ok", value |-> ResolveTbLogger(logger)]
       ELSE /\ tb_ret' = [status |-> "ok", value |-> _tb_logger]
            /\ UNCHANGED _tb_logger
    /\ UNCHANGED <<pitch, durs, pc, ret, logger>>

NextLogger == tb_logger

SpecLogger == InitLogger /\ [][NextLogger]_vars

---------------------------------------------------------------------------
(* Vocabulary of the properties: the shapes of the arguments and the      *)
(* direct, per-span computation of a token's average.                     *)

Done == pc = "done"

NB == Len(pitch)
NF == Len(pitch[1])
NT == Len(pitch[1][1])
NBd == Len(durs)
NL == Len(durs[1])

RECURSIVE SumOf(_)
SumOf(s) == IF s = <<>> THEN 0 ELSE s[1] + SumOf(Tail(s))

NonNegative(d) == \A b \in 1..Len(d) : \A l \in 1..Len(d[b]) : d[b][l] >= 0

(* Durations are non-negative, each row covers at most the T frames, and *)
(* pitch and durations have the same number of rows.                     *)
WellFormedFor(p, d) ==
    /\ Len(p) = Len(d)
    /\ NonNegative(d)
    /\ \A b \in 1..Len(d) : SumOf(d[b]) <= Len(p[1][1])

WellFormed == WellFormedFor(pitch, durs)

(* Token l of row b spans the frames SpanStart < t <= SpanEnd, frames    *)
(* being numbered from 1.                                                *)
SpanStart(b, l) == SumOf(SubSeq(durs[b], 1, l - 1))
SpanEnd(b, l) == SumOf(SubSeq(durs[b], 1, l))
SpanFrames(b, l) == {t \in 1..NT : SpanStart(b, l) < t /\ t <= SpanEnd(b, l)}

Voiced(b, f, l) == {t \in SpanFrames(b, l) : pitch[b][f][t] # 0}

DirectSum(b, f, l) == SumOf(SubSeq(pitch[b][f], SpanStart(b, l) + 1, SpanEnd(b, l)))

(* The float32 quotient of the span's sum by its number of voiced        *)
(* frames, 0 when there is none.                                         *)
DirectAvg(b, f, l) ==
    IF Voiced(b, f, l) = {} THEN Zero
    ELSE FDiv(RoundF32(DirectSum(b, f, l)), Cardinality(Voiced(b, f, l)))

Tokens == (1..NBd) \X (1..NF) \X (1..NL)

HasShape(x, B, F, L) ==
    /\ DOMAIN x = 1..B
    /\ \A b \in 1..B :
          /\ DOMAIN x[b] = 1..F
          /\ \A f \in 1..F : DOMAIN x[b][f] = 1..L

---------------------------------------------------------------------------
(* C1: on well-formed input, every element [b, f, l] of the result of     *)
(* average_pitch equals the sum of pitch[b, f, t] over the frames of      *)
(* token l's span divided by the number of non-zero frames of the span,   *)
(* and 0 when there is none: the prefix-sum computation agrees with the   *)
(* direct per-span one.                                                   *)
C1_AgreesWithDirect ==
    (Done /\ WellFormed) =>
        /\ ret.status = "ok"
        /\ \A k \in Tokens : ret.value[k[1]][k[2]][k[3]] = DirectAvg(k[1], k[2], k[3])

(* C2: whenever the span of a token holds no non-zero pitch sample (its   *)
(* duration is 0, or all its frames are 0), the call yields an element    *)
(* for that token and every formant, and the element is exactly 0, never  *)
(* NaN.                                                                   *)
C2_ZeroWhenNoVoicedFrame ==
    (Done /\ NonNegative(durs)) =>
        /\ WellFormed => ret.status = "ok"
        /\ ret.status = "ok" =>
              \A k \in Tokens :
                  Voiced(k[1], k[2], k[3]) = {} =>
                      /\ k[1] \in DOMAIN ret.value
                      /\ k[2] \in DOMAIN ret.value[k[1]]
                      /\ k[3] \in DOMAIN ret.value[k[1]][k[2]]
                      /\ ret.value[k[1]][k[2]][k[3]] = Zero

(* A call returned on a row with a token of duration 0 that lies between  *)
(* voiced frames and a token of positive duration whose frames are all 0. *)
C2_Witness ==
    /\ Done /\ WellFormed /\ ret.status = "ok"
    /\ \E b \in 1..NBd : \E f \in 1..NF : \E l1, l2 \in 1..NL :
          /\ durs[b][l1] = 0
          /\ SpanStart(b, l1) > 0 /\ SpanStart(b, l1) < NT
          /\ pitch[b][f][SpanStart(b, l1)] # 0
          /\ pitch[b][f][SpanStart(b, l1) + 1] # 0
          /\ durs[b][l2] > 0
          /\ Voiced(b, f, l2) = {}
          /\ ret.value[b][f][l1] = Zero
          /\ ret.value[b][f][l2] = Zero

(* C3: on well-formed input, a token whose span holds exactly one         *)
(* non-zero sample v, wherever it lies in the span, averages to exactly   *)
(* v.                                                                     *)
C3_SingleNonzeroExact ==
    (Done /\ WellFormed) =>
        /\ ret.status = "ok"
        /\ \A k \in Tokens :
              Cardinality(Voiced(k[1], k[2], k[3])) = 1 =>
                  ret.value[k[1]][k[2]][k[3]] = <<DirectSum(k[1], k[2], k[3]), 1>>
(* C4: on well-formed input, for a row and formant whose durations sum  *)
(* to T and whose frames are all non-zero, the duration-weighted sum of   *)
(* the token averages equals the sum of the pitch over all frames.  The   *)
(* averages are num / den, so the law is stated with both sides           *)
(* multiplied by the greatest denominator of the row.                     *)
MaxDen(b, f) ==
    CHOOSE m \in {ret.value[b][f][l][2] : l \in 1..NL} :
        \A l \in 1..NL : ret.value[b][f][l][2] <= m

WeightedSum(b, f) ==
    SumOf([l \in 1..NL |->
        durs[b][l] * ret.value[b][f][l][1] * (MaxDen(b, f) \div ret.value[b][f][l][2])])

C4_FullCoverageSumLaw ==
    (Done /\ WellFormed) =>
        /\ ret.status = "ok"
        /\ \A b \in 1..NB : \A f \in 1..NF :
              (SumOf(durs[b]) = NT /\ \A t \in 1..NT : pitch[b][f][t] # 0) =>
                  WeightedSum(b, f) = MaxDen(b, f) * SumOf(pitch[b][f])

(* C5: when the durations of some row sum to more than T, the call        *)
(* raises no error and returns a result.                                  *)
Overlong == \E b \in 1..NBd : SumOf(durs[b]) > NT

C5_OverlongReturns == (Done /\ Overlong) => ret.status = "ok"

(* C5, as the code has it: when the durations of some row sum to more     *)
(* than T, the row's last cumulative end lies past the padded prefix sums *)
(* and the gather raises: the call returns no result.                     *)
C5_OverlongRaises == (Done /\ Overlong) => (ret.status = "error" /\ ret.value = <<>>)

(* A call failed on input that is well formed but for one row whose       *)
(* non-negative durations sum to more than T.                             *)
C5_Witness ==
    /\ Done /\ NB = NBd /\ NonNegative(durs) /\ Overlong
    /\ \E b \in 1..NBd : SumOf(durs[b]) <= NT
    /\ ret.status = "error"

(* C6: given a negative duration, or pitch and durations with different   *)
(* numbers of rows, the call fails with an error.                         *)
Malformed == ~NonNegative(durs) \/ NB # NBd

C6_ValidatesEagerly == (Done /\ Malformed) => ret.status = "error"

(* C6, as the code has it: nothing is validated.  A call fails exactly    *)
(* when the gather does: when durations have more rows than pitch, or     *)
(* some span boundary (a cumulative sum of a row's durations) lies        *)
(* outside 0..T; otherwise it returns a result, also for a negative       *)
(* duration or for fewer rows of durations than of pitch.                 *)
BoundaryOutOfRange ==
    \E b \in 1..NBd : \E l \in 1..NL : SpanEnd(b, l) < 0 \/ SpanEnd(b, l) > NT

C6_FailsOnlyWhenGatherFails ==
    Done => (ret.status = "error" <=> (NBd > NB \/ BoundaryOutOfRange))

(* A call returned a result for durations with a negative entry and with  *)
(* fewer rows than pitch.                                                 *)
C6_Witness ==
    /\ Done /\ ~NonNegative(durs) /\ NBd < NB
    /\ ret.status = "ok"
    /\ HasShape(ret.value, NBd, NF, NL)

(* C7: on well-formed input the element [b, f, l] of the result depends   *)
(* only on durs[b, 0..l] and on the pitch of row b, formant f inside      *)
(* token l's span: changing the pitch of one frame outside that span, of  *)
(* another formant or of another row, or a duration of another row        *)
(* (keeping the input well formed), leaves the element as it is.          *)
C7_DependencyFootprint ==
    (Done /\ WellFormed) =>
        /\ ret.status = "ok"
        /\ \A k \in Tokens :
              /\ \A b2 \in 1..NB : \A f2 \in 1..NF : \A t2 \in 1..NT : \A v \in PitchVals :
                    (b2 # k[1] \/ f2 # k[2] \/ t2 \notin SpanFrames(k[1], k[3])) =>
                        average_pitch([pitch EXCEPT ![b2][f2][t2] = v], durs)
                            .value[k[1]][k[2]][k[3]] = ret.value[k[1]][k[2]][k[3]]
              /\ \A b2 \in (1..NBd) \ {k[1]} : \A l2 \in 1..NL : \A v \in 0..NT :
                    WellFormedFor(pitch, [durs EXCEPT ![b2][l2] = v]) =>
                        average_pitch(pitch, [durs EXCEPT ![b2][l2] = v])
                            .value[k[1]][k[2]][k[3]] = ret.value[k[1]][k[2]][k[3]]

(* C8: for rows of non-negative durations, the boundaries the call        *)
(* computes are, for every formant alike, cum_ends[b, l] = the sum of     *)
(* durs[b, 0..l], cum_starts[b, 0] = 0 and cum_starts[b, l] =             *)
(* cum_ends[b, l-1], with cum_starts <= cum_ends; so every frame below    *)
(* the row's total duration lies in the span of exactly one token, and    *)
(* no other frame lies in any span.                                       *)
C8_SpanBoundaries ==
    (Done /\ NonNegative(durs)) =>
        /\ HasShape(ret.dcs, NBd, NF, NL)
        /\ HasShape(ret.dce, NBd, NF, NL)
        /\ \A k \in Tokens :
              LET b == k[1]
                  f == k[2]
                  l == k[3]
              IN  /\ ret.dce[b][f][l] = SumOf(SubSeq(durs[b], 1, l))
                  /\ ret.dcs[b][f][l] = IF l = 1 THEN 0 ELSE ret.dce[b][f][l - 1]
                  /\ ret.dcs[b][f][l] <= ret.dce[b][f][l]
        /\ \A b \in 1..NBd : \A f \in 1..NF : \A t \in 0..(SumOf(durs[b]) + 1) :
              Cardinality({l \in 1..NL : ret.dcs[b][f][l] <= t /\ t < ret.dce[b][f][l]})
                  = IF t < SumOf(durs[b]) THEN 1 ELSE 0

(* A call on two formants and three tokens, the middle one of duration 0, *)
(* the others not.                                                        *)
C8_Witness ==
    /\ Done /\ WellFormed /\ ret.status = "ok"
    /\ NF = MaxF /\ NL = MaxL
    /\ durs[1][1] > 0 /\ durs[1][2] = 0 /\ durs[1][NL] > 0
    /\ ret.dcs[1][NF][NL] = durs[1][1]
    /\ ret.dce[1][NF][NL] = durs[1][1] + durs[1][NL]

(* C9: on well-formed input of shapes (B, F, T) and (B, L) the result has *)
(* shape exactly (B, F, L), whatever T and also with tokens of duration   *)
(* 0.                                                                     *)
C9_ResultShape ==
    (Done /\ WellFormed) => (ret.status = "ok" /\ HasShape(ret.value, NB, NF, NL))

(* A call returned for two formants and a number of tokens that differs  *)
(* from the number of frames, one token of duration 0 and one not.        *)
C9_Witness ==
    /\ Done /\ WellFormed /\ ret.status = "ok"
    /\ NF = MaxF /\ NT # NL
    /\ \E l1, l2 \in 1..NL : durs[1][l1] = 0 /\ durs[1][l2] > 0
    /\ HasShape(ret.value, NB, NF, NL)

---------------------------------------------------------------------------
(* C10: reading tb_logger of a model without a logger returns None        *)
(* without raising; with a logger, every read returns the one cached      *)
(* object: the experiment of the first TensorBoardLogger of a             *)
(* LoggerCollection, otherwise logger.experiment.                         *)
ExpectedTbLogger ==
    IF logger.cls = "LoggerCollection"
       /\ \E i \in 1..Len(logger.loggers) : logger.loggers[i].cls = "TensorBoardLogger"
    THEN LET i == CHOOSE i \in 1..Len(logger.loggers) :
                     /\ logger.loggers[i].cls = "TensorBoardLogger"
                     /\ \A j \in 1..(i - 1) : logger.loggers[j].cls # "TensorBoardLogger"
         IN  Experiment(logger.loggers[i].ids[1])
    ELSE ExperimentOf(logger)

C10_TbLoggerRead ==
    tb_ret.status # "none" =>
        IF logger = None
        THEN tb_ret = [status |-> "ok", value |-> None]
        ELSE /\ tb_ret = [status |-> "ok", value |-> ExpectedTbLogger]
             /\ _tb_logger = ExpectedTbLogger

====
